---------------------------- MODULE Spec2Model ----------------------------
(***************************************************************************)
(* A model of BRDF_descriptors.py: the granule locator (locate,            *)
(* find_granules), the timestamp normalizer (process_time_input), the      *)
(* raster conversions (process_kernels, process_snow, process_unc), the    *)
(* band/mask processor (process_masked_kernels) and the retriever          *)
(* (RetrieveBRDFDescriptors.__init__, get_brdf_descriptors).               *)
(*                                                                         *)
(* A text is a sequence of one-character strings, so that parsing is       *)
(* computed and not assumed.  A datetime is a record [year, month, day]    *)
(* (midnight).  A raised exception is a record [kind, msg].                *)
(***************************************************************************)
EXTENDS Integers, Sequences, FiniteSets, TLC

VARIABLES fs, rr, call

vars == <<fs, rr, call>>

(***************************************************************************)
(* Bounds of the model.                                                    *)
(***************************************************************************)
\* the calendar years the timestamps range over: 2015 .. 2014 + NYears
NYears == 2
\* the most files the modelled directory trees hold
MaxFiles == 4
\* samples of a kernel array
NSamples == 2
\* pixels of a mask layer
NPix == 2

Years == 2015..(2014 + NYears)

(***************************************************************************)
(* Texts.                                                                  *)
(***************************************************************************)
DigitChars == <<"0", "1", "2", "3", "4", "5", "6", "7", "8", "9">>

IsDigit(c) == \E i \in 1..10 : DigitChars[i] = c

DigitVal(c) == (CHOOSE i \in 1..10 : DigitChars[i] = c) - 1

AllDigits(s) == \A i \in 1..Len(s) : IsDigit(s[i])

RECURSIVE NumVal(_)
NumVal(s) ==
    IF s = <<>> THEN 0
    ELSE 10 * NumVal(SubSeq(s, 1, Len(s) - 1)) + DigitVal(s[Len(s)])

\* n written with exactly w digits (zero padded), as "%0wd" does
RECURSIVE Pad(_, _)
Pad(n, w) ==
    IF w = 0 THEN <<>>
    ELSE Append(Pad(n \div 10, w - 1), DigitChars[(n % 10) + 1])

(***************************************************************************)
(* The proleptic Gregorian calendar of datetime.                           *)
(***************************************************************************)
IsLeap(y) == (y % 4 = 0) /\ ((y % 100 # 0) \/ (y % 400 = 0))

DaysInMonth(y, m) ==
    IF m = 2 THEN (IF IsLeap(y) THEN 29 ELSE 28)
    ELSE IF m \in {4, 6, 9, 11} THEN 30 ELSE 31

RECURSIVE DaysBeforeMonth(_, _)
DaysBeforeMonth(y, m) ==
    IF m = 1 THEN 0 ELSE DaysBeforeMonth(y, m - 1) + DaysInMonth(y, m - 1)

DaysBeforeYear(y) ==
    (y - 1) * 365 + ((y - 1) \div 4) - ((y - 1) \div 100) + ((y - 1) \div 400)

Date(y, m, d) == [year |-> y, month |-> m, day |-> d]

ToOrdinal(dt) ==
    DaysBeforeYear(dt.year) + DaysBeforeMonth(dt.year, dt.month) + dt.day

\* datetime.date.fromordinal, for ordinals of the years Years and the next
FromOrdinal(n) ==
    LET y == CHOOSE yy \in 2015..(2015 + NYears) :
                 DaysBeforeYear(yy) < n /\ n <= DaysBeforeYear(yy + 1)
        r == n - DaysBeforeYear(y)
        m == CHOOSE mm \in 1..12 :
                 DaysBeforeMonth(y, mm) < r
                 /\ r <= DaysBeforeMonth(y, mm) + DaysInMonth(y, mm)
    IN  Date(y, m, r - DaysBeforeMonth(y, m))

\* the order of datetime values
DateLeq(a, b) == ToOrdinal(a) <= ToOrdinal(b)

(***************************************************************************)
(* Results of a call.                                                      *)
(***************************************************************************)
Ok(v) == [kind |-> "ok", val |-> v]

Raise(k, m) == [kind |-> k, msg |-> m]

NoCall == [op |-> "none"]

NoRetriever == [state |-> "none"]

(***************************************************************************)
(* datetime.datetime.strptime(s, "%Y-%m-%d"): the format's regular         *)
(* expression \d\d\d\d-(1[0-2]|0[1-9]|[1-9])-(3[01]|[12]\d|0[1-9]|[1-9])   *)
(* matched from the start, ValueError when it does not match, when text    *)
(* remains after it, or when the day is not a day of that month.           *)
(***************************************************************************)
StrptimeIso(s) ==
    LET bad == Raise("ValueError", "does not match format %Y-%m-%d")
        n == Len(s)
    IN  IF ~(n >= 6 /\ AllDigits(SubSeq(s, 1, 4)) /\ s[5] = "-") THEN bad
        ELSE
        LET mlen == IF n >= 7 /\ IsDigit(s[6]) /\ IsDigit(s[7])
                       /\ NumVal(SubSeq(s, 6, 7)) \in 1..12 THEN 2
                    ELSE IF IsDigit(s[6]) /\ DigitVal(s[6]) \in 1..9 THEN 1
                    ELSE 0
            p == 7 + mlen
        IN  IF mlen = 0 \/ n < p \/ s[6 + mlen] # "-" THEN bad
            ELSE
            LET dlen == IF n >= p + 1 /\ IsDigit(s[p]) /\ IsDigit(s[p + 1])
                           /\ NumVal(SubSeq(s, p, p + 1)) \in 1..31 THEN 2
                        ELSE IF IsDigit(s[p]) /\ DigitVal(s[p]) \in 1..9 THEN 1
                        ELSE 0
                y == NumVal(SubSeq(s, 1, 4))
                m == NumVal(SubSeq(s, 6, 5 + mlen))
                d == NumVal(SubSeq(s, p, p + dlen - 1))
            IN  IF dlen = 0 THEN bad
                ELSE IF p + dlen - 1 # n
                     THEN Raise("ValueError", "unconverted data remains")
                ELSE IF d > DaysInMonth(y, m)
                     THEN Raise("ValueError", "day is out of range for month")
                ELSE Ok(Date(y, m, d))

(***************************************************************************)
(* datetime.datetime.strptime(s, "%Y%j"): \d\d\d\d followed by the day of  *)
(* the year, whose alternatives are tried three digits first (001..366),   *)
(* then two (01..99), then one (1..9).  The date is the ordinal of 1       *)
(* January plus the day of the year minus one, with no check that the year *)
(* has that many days.                                                     *)
(***************************************************************************)
StrptimeJulian(s) ==
    LET bad == Raise("ValueError", "does not match format %Y%j")
        n == Len(s)
    IN  IF ~(n >= 5 /\ AllDigits(SubSeq(s, 1, 4))) THEN bad
        ELSE
        LET jlen == IF n >= 7 /\ AllDigits(SubSeq(s, 5, 7))
                       /\ NumVal(SubSeq(s, 5, 7)) \in 1..366 THEN 3
                    ELSE IF n >= 6 /\ AllDigits(SubSeq(s, 5, 6))
                       /\ NumVal(SubSeq(s, 5, 6)) \in 1..99 THEN 2
                    ELSE IF IsDigit(s[5]) /\ DigitVal(s[5]) \in 1..9 THEN 1
                    ELSE 0
            y == NumVal(SubSeq(s, 1, 4))
            j == NumVal(SubSeq(s, 5, 4 + jlen))
        IN  IF jlen = 0 THEN bad
            ELSE IF 4 + jlen # n
                 THEN Raise("ValueError", "unconverted data remains")
            ELSE Ok(FromOrdinal((j - 1) + ToOrdinal(Date(y, 1, 1))))

(***************************************************************************)
(* Timestamps as the caller passes them: a str, a datetime.datetime, None  *)
(* or a value of another type.                                             *)
(***************************************************************************)
Str(s) == [type |-> "str", chars |-> s]

Native(dt) == [type |-> "datetime", val |-> dt]

None == [type |-> "NoneType"]

OtherType(t) == [type |-> t]

FormatError ==
    Raise("ValueError", "The passed timestamp wasn't either a %Y-%m-%d string, a %Y%j string")

UnsupportedType ==
    Raise("ValueError", "You can only use a string or a datetime object")

\* a bug process_time_input could have: no second attempt with "%Y%j"
process_time_input_iso_only(timestamp) ==
    IF timestamp.type = "datetime" THEN Ok(timestamp.val)
    ELSE IF timestamp.type = "str"
         THEN IF StrptimeIso(timestamp.chars).kind = "ok"
              THEN StrptimeIso(timestamp.chars)
              ELSE FormatError
    ELSE UnsupportedType

process_time_input(timestamp) ==
    IF timestamp.type = "datetime" THEN Ok(timestamp.val)
    ELSE IF timestamp.type = "str"
         THEN IF StrptimeIso(timestamp.chars).kind = "ok"
              THEN StrptimeIso(timestamp.chars)
              ELSE IF StrptimeJulian(timestamp.chars).kind = "ok"
                   THEN StrptimeJulian(timestamp.chars)
                   ELSE FormatError
    ELSE UnsupportedType

(***************************************************************************)
(* The timestamps the normalizer is applied to: every "YYYY-MM-DD" text    *)
(* with month 1..13 and day 0..32 (the days no month has included), every  *)
(* "YYYYDDD" text with day 0..367, texts with fewer digits, other texts,   *)
(* datetime values, and values of other types.                             *)
(***************************************************************************)
IsoStr(y, m, d) == Pad(y, 4) \o <<"-">> \o Pad(m, 2) \o <<"-">> \o Pad(d, 2)

JulStr(y, j) == Pad(y, 4) \o Pad(j, 3)

Calendar ==
    {Date(y, m, d) : y \in Years, m \in 1..12, d \in 1..31}
        \ {dt \in [year : Years, month : 1..12, day : 29..31] :
               dt.day > DaysInMonth(dt.year, dt.month)}

DayOfYear(dt) == DaysBeforeMonth(dt.year, dt.month) + dt.day

IsoGrid == {IsoStr(y, m, d) : y \in Years, m \in 1..13, d \in 0..32}

JulGrid == {JulStr(y, j) : y \in Years, j \in 0..367}

ShortTexts ==
    {Pad(y, 4) \o <<"-">> \o Pad(m, 1) \o <<"-">> \o Pad(d, 1) :
        y \in Years, m \in 1..2, d \in 1..2}
    \cup {Pad(y, 4) \o Pad(j, 2) : y \in Years, j \in {1, 60}}

OtherTexts ==
    { <<>>, <<"a", "b", "c">>, <<"2", "0", "1", "6">>,
      <<"2", "0", "1", "6", "/", "0", "1", "/", "0", "1">>,
      <<"2", "0", "1", "6", "-", "0", "1", "-", "0", "1", "0">>,
      <<"2", "0", "1", "6", "0", "0", "1", "0">>,
      <<"0", "1", "-", "0", "1", "-", "2", "0", "1", "6">> }

TimeInputs ==
    {Str(s) : s \in IsoGrid \cup JulGrid \cup ShortTexts \cup OtherTexts}
    \cup {Native(dt) : dt \in {c \in Calendar : c.day \in {1, 29}}}
    \cup {None, OtherType("int"), OtherType("date"), OtherType("unicode")}

(***************************************************************************)
(* process_time_input applied to the timestamp the caller passes.          *)
(***************************************************************************)
Pending(op, args) == [op |-> "pending", target |-> op, args |-> args]

Returned(op, args, result) == [op |-> op, args |-> args, result |-> result]

ProcessTimeInput ==
    /\ call.op = "pending" /\ call.target = "process_time_input"
    /\ call' = Returned("process_time_input", call.args,
                        process_time_input(call.args.timestamp))
    /\ UNCHANGED <<fs, rr>>

InitTime ==
    /\ fs = {}
    /\ rr = NoRetriever
    /\ call \in {Pending("process_time_input", [timestamp |-> t]) :
                    t \in TimeInputs}

NextTime == ProcessTimeInput

SpecTime == InitTime /\ [][NextTime]_vars

(***************************************************************************)
(* The directory trees.  A directory is the sequence of its path           *)
(* components; a filename MCD43<prod>.A<date>.<tile>.<ver>.<ext> is the    *)
(* record of its dot-separated fields, <date> being the text that follows  *)
(* the "A" of the second field; a path is a directory and a filename.      *)
(***************************************************************************)
D1 == <<"d1">>

D1Sub == <<"d1", "sub">>

D2 == <<"d2">>

NoDir == <<"nodir">>

ExistingDirs == {D1, D1Sub, D2}

FileName(prod, date, tile, ver, ext) ==
    [prod |-> prod, date |-> date, tile |-> tile, ver |-> ver, ext |-> ext]

Path(dir, name) == [dir |-> dir, name |-> name]

Hdf(dir, prod, y, j) == Path(dir, FileName(prod, JulStr(y, j), "h20v11", "006", "hdf"))

\* the files a tree may hold: A1 and A2 granules of three days in a root,
\* a granule in a subdirectory of it, a granule in a second root, a granule
\* of another tile, a reprocessed granule of a day that has one already,
\* and the .hdf.xml file that comes with a granule
CandidateFiles ==
    { Hdf(D1, "A1", 2016, 1), Hdf(D1, "A1", 2016, 2),
      Hdf(D1, "A2", 2016, 1), Hdf(D1, "A2", 2016, 2), Hdf(D1, "A2", 2015, 365),
      Hdf(D1Sub, "A1", 2015, 365),
      Hdf(D2, "A2", 2016, 1),
      Path(D1, FileName("A1", JulStr(2016, 1), "h19v10", "006", "hdf")),
      Path(D1, FileName("A1", JulStr(2016, 1), "h20v11", "005", "hdf")),
      Path(D1, FileName("A1", JulStr(2016, 2), "h20v11", "006", "xml")) }

FileSystems == {s \in SUBSET CandidateFiles : Cardinality(s) <= MaxFiles}

\* os.path.exists of a directory
PathExists(dir) == dir \in ExistingDirs

\* os.walk(root_dir) visits root_dir and every directory below it
IsUnder(root_dir, dir) ==
    /\ Len(root_dir) <= Len(dir)
    /\ SubSeq(dir, 1, Len(root_dir)) = root_dir

\* fnmatch of a filename against "MCD43%s.A*.%s.*.hdf" % (product, tile)
FnMatch(name, product, tile) ==
    name.prod = product /\ name.tile = tile /\ name.ext = "hdf"

\* the filenames locate returns, without the directory they were found in
locate(files, root_dir, product, tile) ==
    {f.name : f \in {g \in files : IsUnder(root_dir, g.dir)
                                     /\ FnMatch(g.name, product, tile)}}

\* a bug the window test could have: a granule dated start_time is dropped
InWindowStrict(timex, start_time, end_time) ==
    /\ ToOrdinal(timex) > ToOrdinal(start_time)
    /\ (end_time = None \/ DateLeq(timex, end_time))

InWindow(timex, start_time, end_time) ==
    /\ DateLeq(start_time, timex)
    /\ (end_time = None \/ DateLeq(timex, end_time))

\* a bug the not-found test could have: raised when the window holds nothing
NoGranulesInWindow(granules, kept) == kept = {}

NoGranules(granules, kept) == granules = {}

\* os.path.join(dire, granule)
JoinPath(dire, granule) == Path(dire, granule)

(***************************************************************************)
(* find_granules: the results it can give.  The dictionary keeps, for a    *)
(* date several located filenames have, the one os.walk listed last, which *)
(* is any of them.                                                         *)
(***************************************************************************)
find_granules(files, dire, tile, product, start_time, end_time) ==
    LET granules == locate(files, dire, product, tile)
        timex(g) == StrptimeJulian(g.date)
        parsed == {g \in granules : timex(g).kind = "ok"}
        kept == {g \in parsed : InWindow(timex(g).val, start_time, end_time)}
        times == {timex(g).val : g \in kept}
    IN  IF NoGranules(granules, kept)
        THEN {Raise("IOError", "Couldn't find any MCD43 files")}
        ELSE IF parsed # granules
        THEN {Raise("ValueError", "does not match format %Y%j")}
        ELSE {Ok(m) : m \in {mm \in [times -> {JoinPath(dire, g) : g \in kept}] :
                               \A t \in times : timex(mm[t].name).val = t}}

FindGranules ==
    /\ call.op = "pending" /\ call.target = "find_granules"
    /\ \E result \in find_granules(fs, call.args.dire, call.args.tile,
                                    call.args.product, call.args.start_time,
                                    call.args.end_time) :
           call' = Returned("find_granules", call.args, result)
    /\ UNCHANGED <<fs, rr>>

LocateArgs ==
    [dire : {D1, D2, NoDir}, tile : {"h20v11"}, product : {"A1", "A2"},
     start_time : {Date(2015, 12, 31), Date(2016, 1, 1)},
     end_time : {None, Date(2016, 1, 1)}]

InitLocate ==
    /\ fs \in FileSystems
    /\ rr = NoRetriever
    /\ call \in {Pending("find_granules", a) : a \in LocateArgs}

NextLocate == FindGranules

SpecLocate == InitLocate /\ [][NextLocate]_vars

(***************************************************************************)
(* The raster conversions.  An array is a function from its sample (or     *)
(* pixel) indices; the float v/1000. is the fraction of v over 1000.       *)
(***************************************************************************)
Sentinel == 32767

ScaleFactor == 1000

NaN == [nan |-> TRUE]

Scaled(v) == [num |-> v, den |-> ScaleFactor]

PyNone == [pynone |-> TRUE]

\* a bug the sentinel test could have: every large sample taken as missing
IsSentinelOrAbove(v) == v >= Sentinel - 1

IsSentinel(v) == v = Sentinel

process_kernels(kernels) ==
    [i \in DOMAIN kernels |->
        IF IsSentinel(kernels[i]) THEN NaN ELSE Scaled(kernels[i])]

\* np.where(snow==0, False, True)
process_snow(snow) ==
    [i \in DOMAIN snow |-> IF snow[i] = 0 THEN FALSE ELSE TRUE]

\* the converted array is bound to a local name and nothing is returned
process_unc(unc) == PyNone

(***************************************************************************)
(* The % operator of str: each directive takes the next argument, %d       *)
(* wants a number, and arguments may neither lack nor remain.  directives  *)
(* and args are sequences of "d" and of the arguments' types.              *)
(***************************************************************************)
PercentFormat(directives, args) ==
    LET firstBad == {i \in 1..Len(directives) :
                        i > Len(args) \/ (directives[i] = "d" /\ args[i] # "int")}
    IN  IF firstBad # {}
        THEN LET i == CHOOSE k \in firstBad : \A l \in firstBad : k <= l
             IN  IF i > Len(args)
                 THEN Raise("TypeError", "not enough arguments for format string")
                 ELSE Raise("TypeError", "%d format: a number is required")
        ELSE IF Len(args) > Len(directives)
        THEN Raise("TypeError", "not all arguments converted during string formatting")
        ELSE Ok("formatted")

\* the loop over the five subdatasets and the mask, given the arrays read
mask_layers(layers) ==
    LET kernels == process_kernels(layers.data)
        snow == process_snow(layers.snow)
        land == [i \in DOMAIN layers.land |-> layers.land[i] = 1]
        unc == process_unc(layers.unc)
        qa == [i \in DOMAIN layers.qa |-> layers.qa[i] <= 1]
        mask == [i \in DOMAIN snow |-> snow[i] /\ land[i] /\ qa[i]]
    IN  Ok([kernels |-> kernels, mask |-> mask])

\* the five names are built first: fdata from a format with one %d and the
\* two arguments (fname_a1, band_no), func from a format with no directive
\* and the argument a2_granule, fqa from one %d and band_no
process_masked_kernels(band_no, a1_granule, a2_granule, layers) ==
    LET fdata == PercentFormat(<<"d">>, <<"str", "int">>)
        func == PercentFormat(<<>>, <<"str">>)
        fqa == PercentFormat(<<"d">>, <<"int">>)
    IN  IF fdata.kind # "ok" THEN fdata
        ELSE IF func.kind # "ok" THEN func
        ELSE IF fqa.kind # "ok" THEN fqa
        ELSE mask_layers(layers)

SampleValues == {-1000, 0, 1500, Sentinel - 1, Sentinel}

KernelArrays == [1..NSamples -> SampleValues]

Layers ==
    [data : {[i \in 1..NPix |-> IF i = 1 THEN Sentinel ELSE 1500]},
     snow : [1..NPix -> {0, 1}],
     land : [1..NPix -> {0, 1, 2}],
     unc : {[i \in 1..NPix |-> Sentinel]},
     qa : [1..NPix -> {0, 1, 2}]]

ProcessKernels ==
    /\ call.op = "pending" /\ call.target = "process_kernels"
    /\ call' = Returned("process_kernels", call.args,
                        Ok(process_kernels(call.args.kernels)))
    /\ UNCHANGED <<fs, rr>>

ProcessMaskedKernels ==
    /\ call.op = "pending" /\ call.target = "process_masked_kernels"
    /\ call' = Returned("process_masked_kernels", call.args,
                        process_masked_kernels(call.args.band_no,
                            call.args.a1_granule, call.args.a2_granule,
                            call.args.layers))
    /\ UNCHANGED <<fs, rr>>

\* lines 110-131 of process_masked_kernels alone, on five arrays
MaskLayers ==
    /\ call.op = "pending" /\ call.target = "mask_layers"
    /\ call' = Returned("mask_layers", call.args, mask_layers(call.args.layers))
    /\ UNCHANGED <<fs, rr>>

InitRaster ==
    /\ fs = {}
    /\ rr = NoRetriever
    /\ call \in {Pending("process_kernels", [kernels |-> k]) : k \in KernelArrays}
          \cup {Pending("process_masked_kernels",
                        [band_no |-> b, a1_granule |-> Hdf(D1, "A1", 2016, 1),
                         a2_granule |-> Hdf(D1, "A2", 2016, 1), layers |-> l]) :
                    b \in {1, 7}, l \in Layers}
          \cup {Pending("mask_layers", [layers |-> l]) : l \in Layers}

NextRaster == ProcessKernels \/ ProcessMaskedKernels \/ MaskLayers

SpecRaster == InitRaster /\ [][NextRaster]_vars

(***************************************************************************)
(* RetrieveBRDFDescriptors.__init__.  The steps run in the order of the    *)
(* source and the first error ends the construction: no retriever exists   *)
(* then.                                                                   *)
(***************************************************************************)
\* a bug the check of the A2 directory could have: the check left out
A2DirUnchecked(mcd43a2_dir) == TRUE

A1DirExists(mcd43a1_dir) == PathExists(mcd43a1_dir)

A2DirExists(mcd43a2_dir) == PathExists(mcd43a2_dir)

\* a bug the comparison of the dates could have: A1 dates only looked up in A2
DatesSubset(a1_granules, a2_granules) ==
    DOMAIN a1_granules \subseteq DOMAIN a2_granules

DatesEqual(a1_granules, a2_granules) ==
    DOMAIN a1_granules = DOMAIN a2_granules

Failed(result) == [result |-> result, rr |-> NoRetriever]

\* a directory passed for the optional parameter mcd43a2_dir
Given(dir) == [type |-> "str", dir |-> dir]

\* the outcomes of a construction: the result and the retriever it leaves
construct(files, tile, mcd43a1_dir, start_time, end_time, mcd43a2_dir) ==
    LET st == process_time_input(start_time)
        et == IF end_time # None THEN process_time_input(end_time) ELSE Ok(None)
    IN  IF st.kind # "ok" THEN {Failed(st)}
        ELSE IF et.kind # "ok" THEN {Failed(et)}
        ELSE IF ~A1DirExists(mcd43a1_dir)
        THEN {Failed(Raise("IOError", "mcd43a1_dir does not exist!"))}
        ELSE UNION {
          IF a1.kind # "ok" THEN {Failed(a1)}
          ELSE IF mcd43a2_dir # None /\ ~A2DirExists(mcd43a2_dir.dir)
          THEN {Failed(Raise("IOError", "mcd43a2_dir does not exist!"))}
          ELSE LET a2_dir == IF mcd43a2_dir = None THEN mcd43a1_dir
                             ELSE mcd43a2_dir.dir
               IN UNION {
                 IF a2.kind # "ok" THEN {Failed(a2)}
                 ELSE IF ~DatesEqual(a1.val, a2.val)
                 THEN {Failed(Raise("ValueError",
                                    "A1 and A2 product files do not overlap!"))}
                 ELSE {[result |-> Ok("constructed"),
                        rr |-> [state |-> "ready", tile |-> tile,
                                start_time |-> st.val, end_time |-> et.val,
                                mcd43a1_dir |-> mcd43a1_dir,
                                mcd43a2_dir |-> a2_dir,
                                a1_granules |-> a1.val,
                                a2_granules |-> a2.val]]}
                 : a2 \in find_granules(files, a2_dir, tile, "A2",
                                        st.val, et.val) }
          : a1 \in find_granules(files, mcd43a1_dir, tile, "A1", st.val, et.val) }

ConstructArgs ==
    [tile : {"h20v11"},
     mcd43a1_dir : {D1, NoDir \o <<"a1">>},
     start_time : {Str(IsoStr(2015, 12, 31)), Str(JulStr(2016, 1)),
                   Str(IsoStr(2016, 13, 1))},
     end_time : {None, Str(JulStr(2016, 1))},
     mcd43a2_dir : {None, Given(D2), Given(NoDir)}]

Construct ==
    /\ rr.state = "none" /\ call = NoCall
    /\ \E a \in ConstructArgs :
         \E out \in construct(fs, a.tile, a.mcd43a1_dir, a.start_time,
                              a.end_time, a.mcd43a2_dir) :
            /\ rr' = out.rr
            /\ call' = Returned("construct", a, out.result)
    /\ UNCHANGED fs

(***************************************************************************)
(* get_brdf_descriptors.  The call of process_masked_kernels passes the    *)
(* two granules and no band number to a function of three parameters.      *)
(***************************************************************************)
BandError == Raise("ValueError", "Bands can only go from 1 to 7!")

\* a call of process_masked_kernels with the positional arguments args
call_process_masked_kernels(args, layers) ==
    IF Len(args) # 3
    THEN Raise("TypeError", "process_masked_kernels() takes exactly 3 arguments")
    ELSE process_masked_kernels(args[1], args[2], args[3], layers)

get_brdf_descriptors(self, band_no, date, layers) ==
    IF 1 <= band_no /\ band_no <= 7 THEN BandError
    ELSE LET the_date == process_time_input(date)
         IN  IF the_date.kind # "ok" THEN the_date
             ELSE IF the_date.val \notin DOMAIN self.a1_granules
                     \/ the_date.val \notin DOMAIN self.a2_granules
             THEN Raise("KeyError", "the date is not in the index")
             ELSE call_process_masked_kernels(
                      <<self.a1_granules[the_date.val],
                        self.a2_granules[the_date.val]>>, layers)

GetArgs ==
    [band_no : {0, 1, 7, 8},
     date : {Str(IsoStr(2016, 1, 1)), Str(JulStr(2016, 2)),
             Native(Date(2015, 12, 31)), Str(IsoStr(2016, 2, 30))}]

\* what the subdatasets of the two granules hold when they are read
GranuleLayers ==
    {[data |-> [i \in 1..NPix |-> 1500], snow |-> [i \in 1..NPix |-> 0],
      land |-> [i \in 1..NPix |-> 1], unc |-> [i \in 1..NPix |-> Sentinel],
      qa |-> [i \in 1..NPix |-> q]] : q \in {0, 2}}

GetBrdfDescriptors ==
    /\ rr.state = "ready"
    /\ \E a \in GetArgs, layers \in GranuleLayers :
         call' = Returned("get_brdf_descriptors", a,
                          get_brdf_descriptors(rr, a.band_no, a.date, layers))
    /\ UNCHANGED <<fs, rr>>

Init ==
    /\ fs \in FileSystems
    /\ rr = NoRetriever
    /\ call = NoCall

Next == Construct \/ GetBrdfDescriptors

Spec == Init /\ [][Next]_vars

(***************************************************************************)
(* What the claims are stated with: the day a granule's filename names,    *)
(* the day a timestamp of the construction means, and the order of days,   *)
(* each written out and not computed by the model of the code.             *)
(***************************************************************************)
GranuleDay(text) ==
    CASE text = <<"2", "0", "1", "5", "3", "6", "5">> -> Date(2015, 12, 31)
      [] text = <<"2", "0", "1", "6", "0", "0", "1">> -> Date(2016, 1, 1)
      [] text = <<"2", "0", "1", "6", "0", "0", "2">> -> Date(2016, 1, 2)

TimeMeant(timestamp) ==
    CASE timestamp = None -> None
      [] timestamp = Str(<<"2", "0", "1", "5", "-", "1", "2", "-", "3", "1">>)
           -> Date(2015, 12, 31)
      [] timestamp = Str(<<"2", "0", "1", "6", "-", "0", "1", "-", "0", "1">>)
           -> Date(2016, 1, 1)
      [] timestamp = Str(<<"2", "0", "1", "6", "0", "0", "1">>) -> Date(2016, 1, 1)
      [] timestamp = Str(<<"2", "0", "1", "6", "0", "0", "2">>) -> Date(2016, 1, 2)
      [] timestamp = Native(Date(2015, 12, 31)) -> Date(2015, 12, 31)
      [] OTHER -> [invalid |-> TRUE]

NotAfter(a, b) ==
    \/ a.year < b.year
    \/ a.year = b.year /\ a.month < b.month
    \/ a.year = b.year /\ a.month = b.month /\ a.day <= b.day

\* the files under dire whose filename matches MCD43<product>.A*.<tile>.*.hdf
MatchingFiles(dire, product, tile) ==
    {f \in fs : /\ IsUnder(dire, f.dir)
                /\ f.name.prod = product /\ f.name.tile = tile
                /\ f.name.ext = "hdf"}

\* the days of the matching files that lie in the window
DaysInWindow(dire, product, tile, start, end) ==
    {GranuleDay(f.name.date) :
        f \in {g \in MatchingFiles(dire, product, tile) :
                  /\ NotAfter(start, GranuleDay(g.name.date))
                  /\ (end = None \/ NotAfter(GranuleDay(g.name.date), end))}}

NotFound == Raise("IOError", "Couldn't find any MCD43 files")

A1DirMissing == Raise("IOError", "mcd43a1_dir does not exist!")

A2DirMissing == Raise("IOError", "mcd43a2_dir does not exist!")

NoOverlap == Raise("ValueError", "A1 and A2 product files do not overlap!")

(***************************************************************************)
(* The retriever (Spec).                                                   *)
(***************************************************************************)
\* the date of a query is a key of both indexes of the retriever
DateInBothIndexes ==
    /\ TimeMeant(call.args.date) \in DOMAIN rr.a1_granules
    /\ TimeMeant(call.args.date) \in DOMAIN rr.a2_granules

\* C1: on a ready retriever, get_brdf_descriptors with a band in [1,7] and a
\* date that is a key of both indexes returns the pair (kernels, mask) and
\* raises no error.
C1_GetReturnsKernelsAndMask ==
    (/\ call.op = "get_brdf_descriptors"
     /\ rr.state = "ready"
     /\ call.args.band_no \in 1..7
     /\ DateInBothIndexes)
        => call.result.kind = "ok"

\* C2: get_brdf_descriptors signals the band-range error for every band
\* outside [1,7] and for no band inside it.
C2_BandRangeValidated ==
    call.op = "get_brdf_descriptors"
        => ((call.result = BandError) <=> (call.args.band_no \notin 1..7))

\* the construction got as far as comparing the two indexes
ReachesComparison ==
    LET a == call.args
        a2 == IF a.mcd43a2_dir = None THEN a.mcd43a1_dir ELSE a.mcd43a2_dir.dir
    IN  /\ TimeMeant(a.start_time) \in Calendar
        /\ TimeMeant(a.end_time) \in Calendar \cup {None}
        /\ a.mcd43a1_dir \in ExistingDirs
        /\ a2 \in ExistingDirs
        /\ MatchingFiles(a.mcd43a1_dir, "A1", a.tile) # {}
        /\ MatchingFiles(a2, "A2", a.tile) # {}

A1Days ==
    DaysInWindow(call.args.mcd43a1_dir, "A1", call.args.tile,
                 TimeMeant(call.args.start_time), TimeMeant(call.args.end_time))

A2Days ==
    DaysInWindow(IF call.args.mcd43a2_dir = None THEN call.args.mcd43a1_dir
                 ELSE call.args.mcd43a2_dir.dir,
                 "A2", call.args.tile,
                 TimeMeant(call.args.start_time), TimeMeant(call.args.end_time))

\* C3: whenever a retriever is ready, after its construction and after any
\* sequence of queries, the dates of its A1 index are the dates of its A2
\* index; a construction that finds A1 and A2 granules of different dates
\* signals the consistency error and leaves no retriever.
C3_IndexDatesAgree ==
    /\ rr.state = "ready"
          => DOMAIN rr.a1_granules = DOMAIN rr.a2_granules
    /\ (call.op = "construct" /\ ReachesComparison)
          => IF A1Days # A2Days
             THEN call.result = NoOverlap /\ rr = NoRetriever
             ELSE /\ call.result.kind = "ok" /\ rr.state = "ready"
                  /\ DOMAIN rr.a1_granules = A1Days
                  /\ DOMAIN rr.a2_granules = A2Days
    /\ (call.op = "construct" /\ call.result.kind # "ok") => rr = NoRetriever

C3_ReadyAfterQuery ==
    /\ rr.state = "ready"
    /\ call.op = "get_brdf_descriptors"
    /\ Cardinality(DOMAIN rr.a1_granules) = 2
    /\ rr.mcd43a2_dir = rr.mcd43a1_dir

\* an A2 directory was given, does not exist, and the timestamps are valid
A2DirGivenAndMissing ==
    /\ call.op = "construct"
    /\ call.args.mcd43a2_dir # None
    /\ call.args.mcd43a2_dir.dir \notin ExistingDirs
    /\ TimeMeant(call.args.start_time) \in Calendar
    /\ TimeMeant(call.args.end_time) \in Calendar \cup {None}

\* C10 as stated: both directories are validated before either index is
\* built, so a construction with a given A2 directory that does not exist
\* signals a directory-does-not-exist error whatever the A1 directory holds.
C10_DirsValidatedBeforeIndexes ==
    A2DirGivenAndMissing => call.result \in {A1DirMissing, A2DirMissing}

\* C10 as amended: the A1 directory is validated and the A1 index built
\* before the A2 directory is validated, so a construction with a given A2
\* directory that does not exist signals the A1 directory's error when that
\* directory does not exist, not-found when it holds no matching A1 file,
\* and the A2 directory-does-not-exist error otherwise.
C10_A2DirValidatedAfterA1Index ==
    A2DirGivenAndMissing
        => call.result =
              IF call.args.mcd43a1_dir \notin ExistingDirs THEN A1DirMissing
              ELSE IF MatchingFiles(call.args.mcd43a1_dir, "A1",
                                    call.args.tile) = {} THEN NotFound
              ELSE A2DirMissing

C10_A2DirErrorSignalled ==
    /\ A2DirGivenAndMissing
    /\ MatchingFiles(call.args.mcd43a1_dir, "A1", call.args.tile) # {}
    /\ call.result = A2DirMissing
    /\ rr = NoRetriever

(***************************************************************************)
(* The granule locator (SpecLocate).                                       *)
(***************************************************************************)
LocateReturned == call.op = "find_granules" /\ call.result.kind = "ok"

\* C5: the map the locator returns has a key d exactly when a file under
\* the root matches the pattern, names the day d, and d lies in the window;
\* a root holding MCD43A1.A2016001.h20v11.006.hdf alone, with start
\* 2016-01-01 and no end, gives exactly one entry, keyed 1 January 2016.
C5_KeysAreTheDaysInWindow ==
    /\ LocateReturned
          => DOMAIN call.result.val =
                DaysInWindow(call.args.dire, call.args.product, call.args.tile,
                             call.args.start_time, call.args.end_time)
    /\ (/\ call.op = "find_granules"
        /\ fs = {Hdf(D1, "A1", 2016, 1)}
        /\ call.args.dire = D1 /\ call.args.product = "A1"
        /\ call.args.start_time = Date(2016, 1, 1) /\ call.args.end_time = None)
          => /\ call.result.kind = "ok"
             /\ DOMAIN call.result.val = {Date(2016, 1, 1)}

C5_OneGranuleOnStartDay ==
    /\ LocateReturned
    /\ fs = {Hdf(D1, "A1", 2016, 1)}
    /\ call.args.start_time = Date(2016, 1, 1) /\ call.args.end_time = None
    /\ DOMAIN call.result.val = {Date(2016, 1, 1)}

\* C6: every path in the map the locator returns is a file that exists under
\* the root, matches the pattern and names the day it is keyed by, also when
\* the file lies in a subdirectory of the root.
C6_PathsAreLocatedFiles ==
    LocateReturned
        => \A d \in DOMAIN call.result.val :
              /\ call.result.val[d] \in
                    MatchingFiles(call.args.dire, call.args.product,
                                  call.args.tile)
              /\ GranuleDay(call.result.val[d].name.date) = d

\* C7: the locator signals not-found exactly when no filename under the root
\* matches the pattern, whatever the window; with a matching filename it
\* returns a map, which is empty when every granule is outside the window.
C7_NotFoundIffNoMatchingFile ==
    call.op = "find_granules"
        => IF MatchingFiles(call.args.dire, call.args.product,
                            call.args.tile) = {}
           THEN call.result = NotFound
           ELSE call.result.kind = "ok"

C7_EmptyMapReturned ==
    /\ LocateReturned
    /\ MatchingFiles(call.args.dire, call.args.product, call.args.tile) # {}
    /\ DOMAIN call.result.val = {}

(***************************************************************************)
(* The timestamp normalizer (SpecTime).                                    *)
(***************************************************************************)
\* the texts of the grids that name no day, and the other texts
UnparseableTexts ==
    {IsoStr(y, m, d) : y \in Years, m \in {13}, d \in 0..32}
    \cup {IsoStr(y, m, d) : y \in Years, m \in 1..12, d \in {0, 32}}
    \cup {IsoStr(dt.year, dt.month, dt.day) :
             dt \in {x \in [year : Years, month : 1..12, day : 29..31] :
                        x.day > DaysInMonth(x.year, x.month)}}
    \cup {JulStr(y, j) : y \in Years, j \in {0, 367}}
    \cup OtherTexts

\* C8: a valid "YYYY-MM-DD" text and a valid "YYYYDDD" text give the date
\* they name (so the two spellings of a day give equal values), a datetime
\* is passed through, a text that parses in neither form signals the format
\* error and a value of another type the type error.
C8_NormalizerGivesTheDateNamed ==
    call.op = "process_time_input"
        => LET t == call.args.timestamp
           IN  /\ \A dt \in Calendar :
                     (\/ t = Str(IsoStr(dt.year, dt.month, dt.day))
                      \/ t = Str(JulStr(dt.year, DayOfYear(dt))))
                        => call.result = Ok(dt)
               /\ t.type = "datetime" => call.result = Ok(t.val)
               /\ (t.type = "str" /\ t.chars \in UnparseableTexts)
                     => call.result = FormatError
               /\ t.type \notin {"str", "datetime"}
                     => call.result = UnsupportedType

C8_LeapDayFromJulianText ==
    /\ call.op = "process_time_input"
    /\ call.args.timestamp = Str(<<"2", "0", "1", "6", "0", "6", "0">>)
    /\ call.result = Ok(Date(2016, 2, 29))

(***************************************************************************)
(* The raster conversions (SpecRaster).                                    *)
(***************************************************************************)
\* the mask the claim describes, for the pixel i of the layers
MaskMeant(layers, i) ==
    layers.snow[i] = 0 /\ layers.land[i] = 1 /\ layers.qa[i] <= 1

\* C4: for every pixel, the mask the band/mask processor produces is true
\* exactly when the snow flag is 0, the land/water flag is 1 and the quality
\* flag is at most 1.
C4_MaskIffSnowFreeLandGood ==
    call.op \in {"process_masked_kernels", "mask_layers"}
        => /\ call.result.kind = "ok"
           /\ \A i \in 1..NPix :
                 call.result.val.mask[i] <=> MaskMeant(call.args.layers, i)

\* C9: the kernel conversion gives "missing" for every sample equal to 32767
\* and v/1000 for every other sample v, each sample by itself.
C9_KernelConversion ==
    call.op = "process_kernels"
        => /\ DOMAIN call.result.val = DOMAIN call.args.kernels
           /\ \A i \in DOMAIN call.args.kernels :
                 call.result.val[i] =
                    IF call.args.kernels[i] = 32767 THEN NaN
                    ELSE [num |-> call.args.kernels[i], den |-> 1000]

C9_SentinelBesideSample ==
    /\ call.op = "process_kernels"
    /\ call.args.kernels[1] = 32767 /\ call.args.kernels[2] = 1500
    /\ call.result.val[1] = NaN
    /\ call.result.val[2] = [num |-> 1500, den |-> 1000]

=============================================================================
